---- MODULE Spec2Model ----
(***************************************************************************)
(* Groceries Autocart: the request-resolution core of the runner (runJob   *)
(* / processSite, in its version that scrapes the cart after the items),   *)
(* driven against the Site Driver collaborator.                            *)
(*                                                                         *)
(* One action is one stretch of processSite / runJob between two awaits.   *)
(* Text that the code inspects (error details) is a sequence of one-       *)
(* character strings, so that toLowerCase and includes are computed.       *)
(***************************************************************************)
EXTENDS Integers, Sequences, FiniteSets, TLC

\* ------------------------------------------------------------------ bounds
MaxItems == 3
MaxAlts == 2

\* --------------------------------------------------------------- JS values
\* An optional string (url?, query?) is None when it is undefined.
None == "none"

\* An optional number, list, error or result is Absent when it is undefined
\* or null, and Some(x) otherwise.
Absent == <<>>
Some(x) == <<x>>
Get(m) == m[1]

\* JavaScript truthiness of an optional string and of an optional number.
TruthyStr(v) == v # None /\ v # ""
TruthyNum(m) == m # Absent /\ Get(m) # 0

\* a || b on optional strings
OrElse(a, b) == IF TruthyStr(a) THEN a ELSE b

\* ------------------------------------------------------------------- text
UpperCase == <<"A","B","C","D","E","F","G","H","I","J","K","L","M",
               "N","O","P","Q","R","S","T","U","V","W","X","Y","Z">>
LowerCase == <<"a","b","c","d","e","f","g","h","i","j","k","l","m",
               "n","o","p","q","r","s","t","u","v","w","x","y","z">>

LowerChar(c) ==
    IF \E k \in 1..Len(UpperCase) : UpperCase[k] = c
    THEN LowerCase[CHOOSE k \in 1..Len(UpperCase) : UpperCase[k] = c]
    ELSE c

\* String.prototype.toLowerCase
ToLowerCase(t) == [k \in 1..Len(t) |-> LowerChar(t[k])]

\* String.prototype.includes
Includes(t, needle) ==
    \E k \in 0..(Len(t) - Len(needle)) : SubSeq(t, k + 1, k + Len(needle)) = needle

KeyOutOfStock == <<"o","u","t","_","o","f","_","s","t","o","c","k">>
KeyNotFound == <<"n","o","t","_","f","o","u","n","d">>
KeyNotFoundSpaced == <<"n","o","t"," ","f","o","u","n","d">>

\* Messages of the errors a driver call can reject with.
MsgOutOfStock == <<"O","U","T","_","O","F","_","S","T","O","C","K",":"," ","p">>
MsgNotFound == <<"N","O","T","_","F","O","U","N","D",":"," ","p">>
MsgNoButton == <<"C","o","u","l","d"," ","n","o","t"," ","f","i","n","d"," ","p">>
MsgSpaced == <<"P","a","g","e"," ","N","o","t"," ","F","o","u","n","d">>
MsgBoth == <<"n","o","t"," ","f","o","u","n","d",","," ","O","u","t","_","O","f","_","S","t","o","c","k">>

DriverErrors == {MsgOutOfStock, MsgNotFound, MsgNoButton, MsgSpaced, MsgBoth}

ErrorPrefix == <<"E","r","r","o","r",":"," ">>

\* String(error || '') where error is Absent (null) or Some(message) for a
\* thrown Error object carrying that message.
ErrorString(e) == IF e = Absent THEN <<>> ELSE ErrorPrefix \o Get(e)

\* Faulty variant of ClassifyReason: the text is not lowered before the
\* keys are looked for.
ClassifyReasonCaseSensitive(errorStr) ==
    IF Includes(errorStr, KeyOutOfStock) THEN "out_of_stock"
    ELSE IF Includes(errorStr, KeyNotFound) \/ Includes(errorStr, KeyNotFoundSpaced)
         THEN "not_found"
         ELSE "error"

\* The reason expression of a FailedItem.
ClassifyReason(errorStr) ==
    LET errorLower == ToLowerCase(errorStr) IN
    IF Includes(errorLower, KeyOutOfStock) THEN "out_of_stock"
    ELSE IF Includes(errorLower, KeyNotFound) \/ Includes(errorLower, KeyNotFoundSpaced)
         THEN "not_found"
         ELSE "error"

\* The texts String(error || '') can give in this model, and the reason
\* expression tabulated over them (evaluated once per text).
ErrorStrings == {ErrorString(e) : e \in {Absent} \cup {Some(m) : m \in DriverErrors}}
ReasonOf == [errorStr \in ErrorStrings |-> ClassifyReason(errorStr)]

\* ------------------------------------------------------------------ input
DriverSites == {"barbora", "rimi"}

Candidates == { [type |-> "url", value |-> "u1"],
                [type |-> "query", value |-> "q1"] }

\* Non-empty alternatives lists, in the order given by the user.
AltLists == UNION { [1..n -> Candidates] : n \in 1..MaxAlts }

CartItem(site, url, query, qty, alternatives) ==
    [site |-> site, url |-> url, query |-> query, qty |-> qty,
     alternatives |-> alternatives]

\* What the driver reports as the product it added, per call.
Products == {"p1", "p2"}

\* ------------------------------------------------------------ runJob input
\* An item is skipped by runJob when its site has no driver ...
InvalidSite(item) == ~TruthyStr(item.site) \/ item.site \notin DriverSites

\* ... or when it has no url, no query and no (or empty) alternatives.
MissingTarget(item) ==
    /\ ~TruthyStr(item.url)
    /\ ~TruthyStr(item.query)
    /\ (item.alternatives = Absent \/ Len(Get(item.alternatives)) = 0)

\* Faulty variant of GroupBySite: an item is put at the front of its site's
\* list instead of at the end.
RECURSIVE GroupBySiteUnshift(_, _, _)
GroupBySiteUnshift(its, k, acc) ==
    IF k > Len(its) THEN acc
    ELSE LET item == its[k] IN
         IF InvalidSite(item) \/ MissingTarget(item)
         THEN GroupBySiteUnshift(its, k + 1, acc)
         ELSE IF \E j \in 1..Len(acc) : acc[j].site = item.site
              THEN GroupBySiteUnshift(its, k + 1,
                       [j \in 1..Len(acc) |->
                           IF acc[j].site = item.site
                           THEN [acc[j] EXCEPT !.reqs = <<k>> \o @]
                           ELSE acc[j]])
              ELSE GroupBySiteUnshift(its, k + 1,
                       Append(acc, [site |-> item.site, reqs |-> <<k>>]))

\* The grouping loop of runJob: a Map from site to the items of that site,
\* in insertion order.  An entry is [site, reqs]; reqs holds the positions
\* of the site's items in options.items.
RECURSIVE GroupBySite(_, _, _)
GroupBySite(its, k, acc) ==
    IF k > Len(its) THEN acc
    ELSE LET item == its[k] IN
         IF InvalidSite(item) \/ MissingTarget(item)
         THEN GroupBySite(its, k + 1, acc)
         ELSE IF \E j \in 1..Len(acc) : acc[j].site = item.site
              THEN GroupBySite(its, k + 1,
                       [j \in 1..Len(acc) |->
                           IF acc[j].site = item.site
                           THEN [acc[j] EXCEPT !.reqs = Append(@, k)]
                           ELSE acc[j]])
              ELSE GroupBySite(its, k + 1,
                       Append(acc, [site |-> item.site, reqs |-> <<k>>]))

\* Items with alternatives, an unusual qty or nothing to add; one per list.
RichItems ==
    { CartItem(site, None, None, Some(2), Some(alts)) :
          site \in DriverSites, alts \in AltLists }
    \cup { CartItem("barbora", None, "q1", qty, Absent) :
              qty \in {Absent, Some(0), Some(1), Some(-1)} }
    \cup { CartItem("barbora", "u1", None, Some(2), Some(<<>>)),
           CartItem("rimi", None, "q1", Some(2), Absent),
           CartItem("barbora", "u1", "q1", Some(2), Absent),
           CartItem("maxima", None, "q1", Some(2), Absent),
           CartItem("rimi", None, None, Some(2), Absent) }

\* Plain requests that fill the rest of a list.
PlainItems ==
    { CartItem("barbora", None, "q1", Some(2), Absent),
      CartItem("rimi", "u1", None, Some(2), Absent) }

\* options.items: up to MaxItems plain items, or one rich item alone, before
\* or after a plain one.
ItemLists ==
    UNION { [1..n -> PlainItems] : n \in 0..MaxItems }
    \cup { <<r>> : r \in RichItems }
    \cup { <<r, p>> : r \in RichItems, p \in PlainItems }
    \cup { <<p, r>> : p \in PlainItems, r \in RichItems }

\* ------------------------------------------------------------------ state
VARIABLES
    items,            \* options.items
    headful,          \* options.headful
    useOpenAI,        \* options.useOpenAI
    apiKey,           \* process.env.OPENAI_API_KEY is set
    pc,               \* where runJob / processSite is suspended
    itemsBySite,      \* runJob: the grouped items
    s,                \* runJob: position of the current site in itemsBySite
    context,          \* processSite: "null", "open" or "closed"
    i,                \* processSite: item loop index (from 1)
    altIndex,         \* processSite: alternative loop index (from 1)
    success,          \* processSite: success flag of the current item
    lastError,        \* processSite: last error caught for the current item
    failedItems,      \* processSite: failedItems
    addedItems,       \* processSite: addedItems
    actualCart,       \* processSite: actualCart
    allFailedItems,   \* runJob: allFailedItems
    allAddedItems,    \* runJob: allAddedItems
    allActualCartItems, \* runJob: allActualCartItems
    result,           \* runJob: Some(the returned RunJobResult), Absent until then
    inflight,         \* history: driver / browser operations awaited now
    dispatches,       \* history: every addByUrl / addByQuery call made
    returns,          \* history: how each of those calls ended, same positions
    launches,         \* history: sites whose context launch was requested
    established,      \* history: sites whose ensureLoggedIn resolved
    aborted,          \* history: sites whose batch ended in the catch block
    desiredQuantity,  \* calculateQuantityMultiplier: argument desiredQuantity
    productTitle,     \* calculateQuantityMultiplier: argument productTitle
    written,          \* history: how the two arguments were written
    multiplier,       \* calculateQuantityMultiplier: Some(returned value)
    scrapes,          \* history: the cart scrapes started, in order
    reply,            \* history: Some(how the collaborator's call in judgeCart ended)
    logs,             \* LogSink: logs
    controller,       \* LogSink: controller, Absent while it is undefined
    enqueued,         \* per stream controller, the chunks enqueued on it
    closes,           \* per stream controller, for each close() call made on
                      \* it the number of chunks enqueued until then
    calls,            \* history: the log calls made on the LogSink, in order
    routePc,          \* POST /api/run: where start(controller) is
    settled           \* history: Some(how the runJob call of the route ended)

vars == <<items, headful, useOpenAI, apiKey, pc, itemsBySite, s, context, i,
          altIndex, success, lastError, failedItems, addedItems, actualCart,
          allFailedItems, allAddedItems, allActualCartItems, result, inflight,
          dispatches, returns, launches, established, aborted,
          desiredQuantity, productTitle, written, multiplier, scrapes, reply,
          logs, controller, enqueued, closes, calls, routePc, settled>>

locals == <<i, altIndex, success, lastError>>
outputs == <<failedItems, addedItems, actualCart>>
totals == <<allFailedItems, allAddedItems, allActualCartItems>>
inputs == <<items, headful, useOpenAI, apiKey, itemsBySite>>
calc == <<desiredQuantity, productTitle, written, multiplier>>
runner == <<items, headful, useOpenAI, apiKey, pc, itemsBySite, s, context, i,
            altIndex, success, lastError, failedItems, addedItems, actualCart,
            allFailedItems, allAddedItems, allActualCartItems, result, inflight,
            dispatches, returns, launches, established, aborted, scrapes,
            reply>>
verification == <<scrapes, reply>>
stream == <<logs, controller, enqueued, closes, calls, routePc, settled>>

\* No call of calculateQuantityMultiplier is being followed.
CalcIdle ==
    /\ desiredQuantity = <<>>
    /\ productTitle = <<>>
    /\ written = <<>>
    /\ multiplier = Absent

\* The stream controller a LogSink can be given.
Controllers == {"c1"}

\* No LogSink has been used and no stream has been started.
StreamIdle ==
    /\ logs = <<>>
    /\ controller = Absent
    /\ enqueued = [c \in Controllers |-> <<>>]
    /\ closes = [c \in Controllers |-> <<>>]
    /\ calls = <<>>
    /\ routePc = "none"
    /\ settled = Absent

history == <<dispatches, returns, launches, established>>

\* runJob is called with one of lists as options.items.
RunJobCalled(lists) ==
    /\ items \in lists
    /\ headful \in BOOLEAN
    /\ pc = "start"
    /\ itemsBySite = <<>>
    /\ s = 0
    /\ context = "null"
    /\ i = 0
    /\ altIndex = 0
    /\ success = FALSE
    /\ lastError = Absent
    /\ failedItems = <<>>
    /\ addedItems = <<>>
    /\ actualCart = <<>>
    /\ allFailedItems = <<>>
    /\ allAddedItems = <<>>
    /\ allActualCartItems = <<>>
    /\ result = Absent
    /\ inflight = {}
    /\ dispatches = <<>>
    /\ returns = <<>>
    /\ launches = <<>>
    /\ established = {}
    /\ aborted = {}
    /\ scrapes = <<>>
    /\ reply = Absent

\* A run of runJob without verification: options.useOpenAI is not set, so
\* the API key is not looked at.
InitWith(lists) ==
    /\ RunJobCalled(lists)
    /\ useOpenAI = FALSE
    /\ apiKey = FALSE
    /\ CalcIdle
    /\ StreamIdle

Init == InitWith(ItemLists)

\* --------------------------------------------------------------- helpers
CurSite == itemsBySite[s].site
CurReqs == itemsBySite[s].reqs
CurReq == CurReqs[i]
CurItem == items[CurReq]

\* const qty = item.qty || 1
Qty(item) == IF TruthyNum(item.qty) THEN Get(item.qty) ELSE 1

\* item.alternatives && item.alternatives.length > 0
HasAlternatives(item) ==
    item.alternatives # Absent /\ Len(Get(item.alternatives)) > 0

Alternatives(item) == Get(item.alternatives)

\* Faulty variant of AltAddedItem: records the first candidate's value as
\* the product added instead of the name the driver returned.
AltAddedItemRequestedName(item, res, qty, site, req) ==
    LET firstAlt == Alternatives(item)[1] IN
    [originalRequest |-> firstAlt.value,
     productAdded |-> firstAlt.value,
     quantityRequested |-> qty,
     quantityAdded |-> res.quantityAdded,
     site |-> site, req |-> req]

\* The AddedItem pushed on the alternatives path.  The field req is a
\* history annotation (the position of the request in options.items).
AltAddedItem(item, res, qty, site, req) ==
    LET firstAlt == Alternatives(item)[1] IN
    [originalRequest |-> firstAlt.value,
     productAdded |-> res.productName,
     quantityRequested |-> qty,
     quantityAdded |-> res.quantityAdded,
     site |-> site, req |-> req]

\* Faulty variant of AltFailedItem: identifies the failure by the last
\* candidate instead of the first.
AltFailedItemLastIdentifier(item, err, site, req) ==
    LET lastAlt == Alternatives(item)[Len(Alternatives(item))]
        errorStr == ErrorString(err)
    IN  [query |-> IF lastAlt.type = "query" THEN lastAlt.value ELSE None,
         url |-> IF lastAlt.type = "url" THEN lastAlt.value ELSE None,
         reason |-> ReasonOf[errorStr],
         details |-> errorStr,
         site |-> site, req |-> req]

\* The FailedItem pushed when every alternative failed.
AltFailedItem(item, err, site, req) ==
    LET firstAlt == Alternatives(item)[1]
        errorStr == ErrorString(err)
    IN  [query |-> IF firstAlt.type = "query" THEN firstAlt.value ELSE None,
         url |-> IF firstAlt.type = "url" THEN firstAlt.value ELSE None,
         reason |-> ReasonOf[errorStr],
         details |-> errorStr,
         site |-> site, req |-> req]

\* The AddedItem pushed for an item without alternatives.
BareAddedItem(item, res, qty, site, req) ==
    [originalRequest |-> OrElse(item.query, OrElse(item.url, "Unknown")),
     productAdded |-> res.productName,
     quantityRequested |-> qty,
     quantityAdded |-> res.quantityAdded,
     site |-> site, req |-> req]

\* Faulty variant of BareFailedItem: the error is recorded without being
\* classified.
BareFailedItemUnclassified(item, err, site, req) ==
    LET errorStr == ErrorString(err) IN
    [query |-> item.query,
     url |-> item.url,
     reason |-> "error",
     details |-> errorStr,
     site |-> site, req |-> req]

\* The FailedItem pushed for an item without alternatives.
BareFailedItem(item, err, site, req) ==
    LET errorStr == ErrorString(err) IN
    [query |-> item.query,
     url |-> item.url,
     reason |-> ReasonOf[errorStr],
     details |-> errorStr,
     site |-> site, req |-> req]

\* One addByUrl / addByQuery call: alt is the index of the alternative, 0
\* for an item without alternatives.
Dispatch(site, req, alt, op, value, qty) ==
    [site |-> site, req |-> req, alt |-> alt, op |-> op, value |-> value,
     qty |-> qty]

\* Faulty variant of AltDispatch: a fallback alternative is asked for one
\* unit instead of the requested quantity.
AltDispatchUnitQty(item, altIndex_, qty, site, req) ==
    LET alt == Alternatives(item)[altIndex_] IN
    Dispatch(site, req, altIndex_,
             IF alt.type = "url" THEN "addByUrl" ELSE "addByQuery",
             alt.value, IF altIndex_ > 1 THEN 1 ELSE qty)

\* The driver call made for alternative altIndex of an item.
AltDispatch(item, altIndex_, qty, site, req) ==
    LET alt == Alternatives(item)[altIndex_] IN
    Dispatch(site, req, altIndex_,
             IF alt.type = "url" THEN "addByUrl" ELSE "addByQuery",
             alt.value, qty)

\* The driver call made for an item without alternatives: by url if it has
\* one, else by query if it has one, else none.
BareDispatch(item, qty, site, req) ==
    IF TruthyStr(item.url)
    THEN Some(Dispatch(site, req, 0, "addByUrl", item.url, qty))
    ELSE IF TruthyStr(item.query)
         THEN Some(Dispatch(site, req, 0, "addByQuery", item.query, qty))
         ELSE Absent

\* The AddResult values a driver call made with qty can resolve to.
AddResults(qty) ==
    { [productName |-> p, quantityAdded |-> qty] : p \in Products }

\* The quantities the product-selection agent can answer with when it is
\* asked for qty units: fewer than one, what was asked, or more.
AgentAnswers(qty) == {0, qty, qty + 1}

\* selectProductWithAgent: a quantity below 1 is set to 1.
ValidatedQuantity(quantity) == IF quantity < 1 THEN 1 ELSE quantity

\* The AddResult values the driver call op made with qty can resolve to.
\* addByUrl, and addByQuery without options.useOpenAI, report qty.  With
\* options.useOpenAI addByQuery reports the quantity of the agent; without
\* an API key the agent gives no selection and the call can only reject.
DriverResults(op, qty) ==
    IF op = "addByQuery" /\ useOpenAI
    THEN IF apiKey
         THEN { [productName |-> p, quantityAdded |-> ValidatedQuantity(a)] :
                    p \in Products, a \in AgentAnswers(qty) }
         ELSE {}
    ELSE AddResults(qty)

\* How a driver call ended (history).
Resolved(res) == [ok |-> TRUE, productName |-> res.productName,
                  quantityAdded |-> res.quantityAdded, error |-> <<>>]
Rejected(err) == [ok |-> FALSE, productName |-> "", quantityAdded |-> 0,
                  error |-> err]

\* What a cart scrape can return for a site.
CartLine == [productName |-> "p1", quantity |-> 2, unit |-> "units"]
ScrapedCarts(site) == IF site = "barbora" THEN {<<>>, <<CartLine>>} ELSE {<<>>}

Awaiting(site, op) == {[site |-> site, op |-> op]}

\* Faulty variant of ReturnToRunJob: the lists of the site replace the
\* lists of runJob instead of being pushed onto them.
ReturnToRunJobKeepsLast(fi, ai, ac) ==
    /\ allFailedItems' = fi
    /\ allAddedItems' = ai
    /\ allActualCartItems' = ac
    /\ s' = s + 1
    /\ pc' = "nextSite"
    /\ inflight' = {}
    /\ i' = 0
    /\ altIndex' = 0
    /\ success' = FALSE
    /\ lastError' = Absent
    /\ failedItems' = <<>>
    /\ addedItems' = <<>>
    /\ actualCart' = <<>>

\* processSite returns to the for-of loop of runJob, which pushes the
\* three lists onto its own.
ReturnToRunJob(fi, ai, ac) ==
    /\ allFailedItems' = allFailedItems \o fi
    /\ allAddedItems' = allAddedItems \o ai
    /\ allActualCartItems' = allActualCartItems \o ac
    /\ s' = s + 1
    /\ pc' = "nextSite"
    /\ inflight' = {}
    /\ i' = 0
    /\ altIndex' = 0
    /\ success' = FALSE
    /\ lastError' = Absent
    /\ failedItems' = <<>>
    /\ addedItems' = <<>>
    /\ actualCart' = <<>>

\* ---------------------------------------------------------------- actions
\* runJob: validation and the grouping loop.
RunJobStart ==
    /\ pc = "start"
    /\ UNCHANGED <<calc, stream, verification>>
    /\ IF Len(items) = 0
       THEN /\ result' = Some([judgments |-> Absent, originalItems |-> <<>>,
                               addedItems |-> <<>>, failedItems |-> <<>>])
            /\ pc' = "done"
            /\ UNCHANGED <<itemsBySite, s>>
       ELSE /\ itemsBySite' = GroupBySite(items, 1, <<>>)
            /\ s' = 1
            /\ pc' = "nextSite"
            /\ UNCHANGED result
    /\ UNCHANGED <<items, headful, useOpenAI, apiKey, context, locals, outputs,
                   totals, inflight, history, aborted>>

\* runJob calls processSite for the next site, which runs up to the await
\* of chromium.launchPersistentContext.
ProcessSiteBegin ==
    /\ pc = "nextSite"
    /\ UNCHANGED <<calc, stream, verification>>
    /\ s <= Len(itemsBySite)
    /\ context' = "null"
    /\ launches' = Append(launches, CurSite)
    /\ inflight' = Awaiting(CurSite, "launch")
    /\ pc' = "launch"
    /\ UNCHANGED <<inputs, s, locals, outputs, totals, result, dispatches,
                   returns, established, aborted>>

\* Faulty variant of LaunchReturns: a rejected launch is not caught by
\* processSite and ends runJob.
LaunchReturnsUncaught ==
    /\ pc = "launch"
    /\ UNCHANGED <<calc, stream, verification>>
    /\ \E ok \in BOOLEAN :
         IF ok
         THEN /\ context' = "open"
              /\ inflight' = Awaiting(CurSite, "ensureLoggedIn")
              /\ pc' = "login"
              /\ UNCHANGED <<s, locals, outputs, totals, aborted>>
         ELSE /\ aborted' = aborted \cup {CurSite}
              /\ inflight' = {}
              /\ pc' = "done"
              /\ UNCHANGED <<s, context, locals, outputs, totals>>
    /\ UNCHANGED <<inputs, result, history>>

\* launchPersistentContext resolves, or rejects: the catch block finds no
\* context to close and processSite returns.
LaunchReturns ==
    /\ pc = "launch"
    /\ UNCHANGED <<calc, stream, verification>>
    /\ \E ok \in BOOLEAN :
         IF ok
         THEN /\ context' = "open"
              /\ inflight' = Awaiting(CurSite, "ensureLoggedIn")
              /\ pc' = "login"
              /\ UNCHANGED <<s, locals, outputs, totals, aborted>>
         ELSE /\ aborted' = aborted \cup {CurSite}
              /\ ReturnToRunJob(failedItems, addedItems, <<>>)
              /\ UNCHANGED context
    /\ UNCHANGED <<inputs, result, history>>

\* newPage .. driver.ensureLoggedIn resolves, or rejects: the catch block
\* awaits context.close().
LoginReturns ==
    /\ pc = "login"
    /\ UNCHANGED <<calc, stream, verification>>
    /\ \E ok \in BOOLEAN :
         IF ok
         THEN /\ i' = 1
              /\ pc' = "loop"
              /\ inflight' = {}
              /\ established' = established \cup {CurSite}
              /\ UNCHANGED aborted
         ELSE /\ aborted' = aborted \cup {CurSite}
              /\ inflight' = Awaiting(CurSite, "close")
              /\ pc' = "closeErr"
              /\ UNCHANGED <<i, established>>
    /\ UNCHANGED <<inputs, s, context, altIndex, success, lastError, outputs,
                   totals, result, dispatches, returns, launches>>

\* Head of the item loop with an item left: the alternatives loop is
\* entered, or the single url / query is dispatched.
BeginItem ==
    /\ pc = "loop"
    /\ UNCHANGED <<calc, stream, verification>>
    /\ i <= Len(CurReqs)
    /\ LET item == CurItem
           call == BareDispatch(item, Qty(item), CurSite, CurReq)
       IN  IF HasAlternatives(item)
           THEN /\ altIndex' = 1
                /\ success' = FALSE
                /\ lastError' = Absent
                /\ pc' = "altLoop"
                /\ UNCHANGED <<inflight, dispatches>>
           ELSE /\ UNCHANGED <<altIndex, success, lastError>>
                /\ IF call # Absent
                   THEN /\ dispatches' = Append(dispatches, Get(call))
                        /\ inflight' = Awaiting(CurSite, Get(call).op)
                        /\ pc' = "bareAwait"
                   ELSE /\ inflight' = Awaiting(CurSite, "delay")
                        /\ pc' = "delay"
                        /\ UNCHANGED dispatches
    /\ UNCHANGED <<inputs, s, context, i, outputs, totals, result, returns,
                   launches, established, aborted>>

\* Faulty variant of ForAlternative: the driver call is not awaited, so the
\* loop goes on to the next alternative while the call is running.
ForAlternativeNotAwaited ==
    /\ pc = "altLoop"
    /\ UNCHANGED <<calc, stream, verification>>
    /\ LET item == CurItem
           call == AltDispatch(item, altIndex, Qty(item), CurSite, CurReq)
       IN  IF altIndex <= Len(Alternatives(item))
           THEN /\ dispatches' = Append(dispatches, call)
                /\ inflight' = inflight \cup Awaiting(CurSite, call.op)
                /\ altIndex' = altIndex + 1
                /\ UNCHANGED pc
           ELSE /\ pc' = "altEnd"
                /\ UNCHANGED <<inflight, dispatches, altIndex>>
    /\ UNCHANGED <<inputs, s, context, i, success, lastError, outputs, totals,
                   result, returns, launches, established, aborted>>

\* Head of the alternatives loop: the next alternative is dispatched, or
\* the loop ends.
ForAlternative ==
    /\ pc = "altLoop"
    /\ UNCHANGED <<calc, stream, verification>>
    /\ LET item == CurItem
           call == AltDispatch(item, altIndex, Qty(item), CurSite, CurReq)
       IN  IF altIndex <= Len(Alternatives(item))
           THEN /\ dispatches' = Append(dispatches, call)
                /\ inflight' = Awaiting(CurSite, call.op)
                /\ pc' = "altAwait"
           ELSE /\ pc' = "altEnd"
                /\ UNCHANGED <<inflight, dispatches>>
    /\ UNCHANGED <<inputs, s, context, locals, outputs, totals, result, returns,
                   launches, established, aborted>>

\* Faulty variant of AlternativeReturns: the break after a success is
\* missing, so the loop goes on with the next alternative.
AlternativeReturnsNoBreak ==
    /\ pc = "altAwait"
    /\ UNCHANGED <<calc, stream, verification>>
    /\ LET item == CurItem
           qty == Qty(item)
       IN  \/ \E res \in DriverResults(dispatches[Len(dispatches)].op, qty) :
                /\ returns' = Append(returns, Resolved(res))
                /\ success' = TRUE
                /\ addedItems' = Append(addedItems,
                       AltAddedItem(item, res, qty, CurSite, CurReq))
                /\ UNCHANGED lastError
           \/ \E err \in DriverErrors :
                /\ returns' = Append(returns, Rejected(err))
                /\ lastError' = Some(err)
                /\ UNCHANGED <<addedItems, success>>
    /\ altIndex' = altIndex + 1
    /\ pc' = "altLoop"
    /\ inflight' = {}
    /\ UNCHANGED <<inputs, s, context, i, failedItems, actualCart, totals, result,
                   dispatches, launches, established, aborted>>

\* The driver call of an alternative resolves (success, record, break) or
\* rejects (remember the error, go on with the next alternative).
AlternativeReturns ==
    /\ pc = "altAwait"
    /\ UNCHANGED <<calc, stream, verification>>
    /\ LET item == CurItem
           qty == Qty(item)
       IN  \/ \E res \in DriverResults(dispatches[Len(dispatches)].op, qty) :
                /\ returns' = Append(returns, Resolved(res))
                /\ success' = TRUE
                /\ addedItems' = Append(addedItems,
                       AltAddedItem(item, res, qty, CurSite, CurReq))
                /\ pc' = "altEnd"
                /\ UNCHANGED <<altIndex, lastError>>
           \/ \E err \in DriverErrors :
                /\ returns' = Append(returns, Rejected(err))
                /\ lastError' = Some(err)
                /\ altIndex' = altIndex + 1
                /\ pc' = "altLoop"
                /\ UNCHANGED <<addedItems, success>>
    /\ inflight' = {}
    /\ UNCHANGED <<inputs, s, context, i, failedItems, actualCart, totals, result,
                   dispatches, launches, established, aborted>>

\* Faulty variant of AfterAlternatives: after the FailedItem is pushed the
\* failure is thrown on to the catch block of processSite.
AfterAlternativesRethrows ==
    /\ pc = "altEnd"
    /\ UNCHANGED <<calc, stream, verification>>
    /\ IF ~success
       THEN /\ failedItems' = Append(failedItems,
                   AltFailedItem(CurItem, lastError, CurSite, CurReq))
            /\ inflight' = Awaiting(CurSite, "close")
            /\ pc' = "closeErr"
       ELSE /\ inflight' = Awaiting(CurSite, "delay")
            /\ pc' = "delay"
            /\ UNCHANGED failedItems
    /\ altIndex' = 0
    /\ success' = FALSE
    /\ lastError' = Absent
    /\ UNCHANGED <<inputs, s, context, i, addedItems, actualCart, totals, result,
                   history, aborted>>

\* After the alternatives loop: if (!success) the FailedItem is pushed; then
\* the delay between items is awaited.
AfterAlternatives ==
    /\ pc = "altEnd"
    /\ UNCHANGED <<calc, stream, verification>>
    /\ IF ~success
       THEN failedItems' = Append(failedItems,
                AltFailedItem(CurItem, lastError, CurSite, CurReq))
       ELSE UNCHANGED failedItems
    /\ altIndex' = 0
    /\ success' = FALSE
    /\ lastError' = Absent
    /\ inflight' = Awaiting(CurSite, "delay")
    /\ pc' = "delay"
    /\ UNCHANGED <<inputs, s, context, i, addedItems, actualCart, totals, result,
                   history, aborted>>

\* The driver call of an item without alternatives resolves or rejects;
\* then the delay between items is awaited.
BareReturns ==
    /\ pc = "bareAwait"
    /\ UNCHANGED <<calc, stream, verification>>
    /\ LET item == CurItem
           qty == Qty(item)
       IN  \/ \E res \in DriverResults(dispatches[Len(dispatches)].op, qty) :
                /\ returns' = Append(returns, Resolved(res))
                /\ addedItems' = Append(addedItems,
                       BareAddedItem(item, res, qty, CurSite, CurReq))
                /\ UNCHANGED failedItems
           \/ \E err \in DriverErrors :
                /\ returns' = Append(returns, Rejected(err))
                /\ failedItems' = Append(failedItems,
                       BareFailedItem(item, Some(err), CurSite, CurReq))
                /\ UNCHANGED addedItems
    /\ inflight' = Awaiting(CurSite, "delay")
    /\ pc' = "delay"
    /\ UNCHANGED <<inputs, s, context, locals, actualCart, totals, result,
                   dispatches, launches, established, aborted>>

\* page.waitForTimeout(500) between two items: a timer, which elapses.
DelayReturns ==
    /\ pc = "delay"
    /\ UNCHANGED <<calc, stream, verification>>
    /\ i' = i + 1
    /\ pc' = "loop"
    /\ inflight' = {}
    /\ UNCHANGED <<inputs, s, context, altIndex, success, lastError, outputs,
                   totals, result, history, aborted>>

\* Faulty variant of BeginScrape: the loop is left one item early, so the
\* cart is scraped while the last item of the site is still to be added.
BeginScrapeBeforeLastItem ==
    /\ pc = "loop"
    /\ UNCHANGED <<calc, stream, reply>>
    /\ i >= Len(CurReqs)
    /\ scrapes' = Append(scrapes, [site |-> CurSite, at |-> Len(dispatches)])
    /\ inflight' = Awaiting(CurSite, "scrape")
    /\ pc' = "scrape"
    /\ UNCHANGED <<inputs, s, context, locals, outputs, totals, result,
                   history, aborted>>

\* Head of the item loop with no item left: the cart scrape is awaited.
\* The history entry keeps the site and the number of driver calls made
\* until then.
BeginScrape ==
    /\ pc = "loop"
    /\ UNCHANGED <<calc, stream, reply>>
    /\ i > Len(CurReqs)
    /\ scrapes' = Append(scrapes, [site |-> CurSite, at |-> Len(dispatches)])
    /\ inflight' = Awaiting(CurSite, "scrape")
    /\ pc' = "scrape"
    /\ UNCHANGED <<inputs, s, context, locals, outputs, totals, result,
                   history, aborted>>

\* Faulty variant of ScrapeReturns: the context is left open in headless
\* mode too.
ScrapeReturnsLeavesOpen ==
    /\ pc = "scrape"
    /\ UNCHANGED <<calc, stream, verification>>
    /\ \E cart \in ScrapedCarts(CurSite) :
         /\ ReturnToRunJob(failedItems, addedItems, cart)
         /\ UNCHANGED context
    /\ UNCHANGED <<inputs, result, history, aborted>>

\* The scrape resolves (a rejection is caught and leaves actualCart empty).
\* Headful: processSite returns with the context left open.  Headless:
\* context.close() is awaited.
ScrapeReturns ==
    /\ pc = "scrape"
    /\ UNCHANGED <<calc, stream, verification>>
    /\ \E cart \in ScrapedCarts(CurSite) :
         IF headful
         THEN /\ ReturnToRunJob(failedItems, addedItems, cart)
              /\ UNCHANGED context
         ELSE /\ actualCart' = cart
              /\ inflight' = Awaiting(CurSite, "close")
              /\ pc' = "close"
              /\ UNCHANGED <<s, context, locals, failedItems, addedItems, totals>>
    /\ UNCHANGED <<inputs, result, history, aborted>>

\* context.close() of the normal path resolves; processSite returns.
CloseReturns ==
    /\ pc = "close"
    /\ UNCHANGED <<calc, stream, verification>>
    /\ context' = "closed"
    /\ ReturnToRunJob(failedItems, addedItems, actualCart)
    /\ UNCHANGED <<inputs, result, history, aborted>>

\* context.close() of the catch block resolves; processSite returns what
\* it has so far and an empty cart.
CloseAfterErrorReturns ==
    /\ pc = "closeErr"
    /\ UNCHANGED <<calc, stream, verification>>
    /\ context' = "closed"
    /\ ReturnToRunJob(failedItems, addedItems, <<>>)
    /\ UNCHANGED <<inputs, result, history, aborted>>

\* runJob after the last site: the summary; then judgeCart is awaited if
\* options.useOpenAI and the API key are set, else the result is returned
\* with judgments null.
RunJobReturn ==
    /\ pc = "nextSite"
    /\ UNCHANGED <<calc, stream, verification>>
    /\ s > Len(itemsBySite)
    /\ IF useOpenAI /\ apiKey
       THEN /\ pc' = "judge"
            /\ UNCHANGED result
       ELSE /\ result' = Some([judgments |-> Absent, originalItems |-> items,
                               addedItems |-> allAddedItems,
                               failedItems |-> allFailedItems])
            /\ pc' = "done"
    /\ UNCHANGED <<inputs, s, context, locals, outputs, totals, inflight,
                   history, aborted>>

Next ==
    \/ RunJobStart
    \/ ProcessSiteBegin
    \/ LaunchReturns
    \/ LoginReturns
    \/ BeginItem
    \/ ForAlternative
    \/ AlternativeReturns
    \/ AfterAlternatives
    \/ BareReturns
    \/ DelayReturns
    \/ BeginScrape
    \/ ScrapeReturns
    \/ CloseReturns
    \/ CloseAfterErrorReturns
    \/ RunJobReturn

Spec == Init /\ [][Next]_vars

\* ---------------------------------------------------------- verification
\* The length of the longest list the comparison collaborator answers with.
MaxJudgments == 2

\* item.query || item.url || ... || 'Unknown': the label of a request in the
\* prompt, for an item without alternatives.
RequestLabel(item) == OrElse(item.query, OrElse(item.url, "Unknown"))

\* The entries the collaborator can put in its list (the fields the report
\* is built on): a success with score 95, a warning with score 95, a
\* failed entry with score 0, and a success with score 120 about a url.
JudgmentItems ==
    { [originalRequest |-> "q1", status |-> "success", matchScore |-> 95,
       notes |-> <<>>],
      [originalRequest |-> "q1", status |-> "warning", matchScore |-> 95,
       notes |-> <<>>],
      [originalRequest |-> "q1", status |-> "failed", matchScore |-> 0,
       notes |-> <<"not added">>],
      [originalRequest |-> "u1", status |-> "success", matchScore |-> 120,
       notes |-> <<>>] }

JudgmentLists == UNION { [1..n -> JudgmentItems] : n \in 0..MaxJudgments }

\* How the call of the collaborator can end: it rejects; the message has no
\* content; the content is not JSON; the JSON is an object whose items are
\* a list; it is an object without such a list; it is a list itself.
Responses ==
    { [kind |-> k, items |-> <<>>] :
          k \in {"rejected", "noContent", "invalidJson", "noList"} }
    \cup { [kind |-> k, items |-> l] : k \in {"items", "list"}, l \in JudgmentLists }

\* What judgeCart returns for the lists it is given and the way the
\* collaborator's call ended: the list of the response, unchanged, or [].
judgeCart(originalItems, added, failed, actualCartItems, response) ==
    IF response.kind \in {"rejected", "noContent", "invalidJson"} THEN <<>>
    ELSE IF response.kind = "noList" THEN <<>>
         ELSE response.items

\* Faulty variant of JudgeReturns: judgeCart has no catch block and no test
\* for a list, so runJob rejects when the comparison cannot complete.
JudgeReturnsUncaught ==
    /\ pc = "judge"
    /\ UNCHANGED <<calc, stream, scrapes>>
    /\ \E response \in Responses :
         /\ reply' = Some(response)
         /\ IF response.kind \in {"items", "list"}
            THEN /\ result' = Some([judgments |-> Some(response.items),
                                    originalItems |-> items,
                                    addedItems |-> allAddedItems,
                                    failedItems |-> allFailedItems])
                 /\ pc' = "done"
            ELSE /\ pc' = "rejected"
                 /\ UNCHANGED result
    /\ UNCHANGED <<inputs, s, context, locals, outputs, totals, inflight,
                   history, aborted>>

\* Faulty variant of JudgeReturns: judgeCart empties the addedItems list it
\* is given while it formats it (shift instead of map), so the list runJob
\* returns, which is the same array, is empty too.
JudgeReturnsShiftsAdded ==
    /\ pc = "judge"
    /\ UNCHANGED <<calc, stream, scrapes>>
    /\ \E response \in Responses :
         /\ reply' = Some(response)
         /\ allAddedItems' = <<>>
         /\ result' = Some([judgments |->
                                 Some(judgeCart(items, allAddedItems, allFailedItems,
                                                allActualCartItems, response)),
                             originalItems |-> items,
                             addedItems |-> <<>>,
                             failedItems |-> allFailedItems])
    /\ pc' = "done"
    /\ UNCHANGED <<inputs, s, context, locals, outputs, allFailedItems,
                   allActualCartItems, inflight, history, aborted>>

\* judgeCart returns and runJob returns its result.
JudgeReturns ==
    /\ pc = "judge"
    /\ UNCHANGED <<calc, stream, scrapes>>
    /\ \E response \in Responses :
         /\ reply' = Some(response)
         /\ result' = Some([judgments |->
                                 Some(judgeCart(items, allAddedItems, allFailedItems,
                                                allActualCartItems, response)),
                             originalItems |-> items,
                             addedItems |-> allAddedItems,
                             failedItems |-> allFailedItems])
    /\ pc' = "done"
    /\ UNCHANGED <<inputs, s, context, locals, outputs, totals, inflight,
                   history, aborted>>

\* The requests of the sites, in the order they were processed.
RECURSIVE ProcessingOrder(_, _)
ProcessingOrder(bySite, j) ==
    IF j > Len(bySite) THEN <<>>
    ELSE bySite[j].reqs \o ProcessingOrder(bySite, j + 1)

\* The lists with which verification is followed: one or two requests
\* without alternatives.
VerifiedLists == UNION { [1..n -> PlainItems] : n \in 1..2 }

\* The cart lines a scrape of barbora can give here.
VerifiedCarts(sites) ==
    IF "barbora" \in sites
    THEN {<<>>} \cup { <<[productName |-> "p1", quantity |-> q, unit |-> "units"]>> :
                          q \in 1..2 }
    ELSE {<<>>}

\* runJob has processed every site of a headless run (every session was
\* established) and reaches the summary: each request was added as p1 with
\* the quantity asked for, or failed.
VerifyInit ==
    \E its \in VerifiedLists :
      \E outcome \in [1..Len(its) ->
                         {Resolved([productName |-> "p1", quantityAdded |-> 2]),
                          Rejected(MsgNotFound)}] :
        LET bySite == GroupBySite(its, 1, <<>>)
            order == ProcessingOrder(bySite, 1)
            sites == {bySite[j].site : j \in 1..Len(bySite)}
            addedReqs == SelectSeq(order, LAMBDA r : outcome[r].ok)
            failedReqs == SelectSeq(order, LAMBDA r : ~outcome[r].ok)
        IN  /\ items = its
            /\ headful = FALSE
            /\ useOpenAI \in BOOLEAN
            /\ apiKey \in BOOLEAN
            /\ pc = "nextSite"
            /\ itemsBySite = bySite
            /\ s = Len(bySite) + 1
            /\ context = "closed"
            /\ i = 0
            /\ altIndex = 0
            /\ success = FALSE
            /\ lastError = Absent
            /\ failedItems = <<>>
            /\ addedItems = <<>>
            /\ actualCart = <<>>
            /\ allAddedItems =
                   [k \in 1..Len(addedReqs) |->
                       BareAddedItem(its[addedReqs[k]], outcome[addedReqs[k]],
                                     Qty(its[addedReqs[k]]), its[addedReqs[k]].site,
                                     addedReqs[k])]
            /\ allFailedItems =
                   [k \in 1..Len(failedReqs) |->
                       BareFailedItem(its[failedReqs[k]],
                                      Some(outcome[failedReqs[k]].error),
                                      its[failedReqs[k]].site, failedReqs[k])]
            /\ allActualCartItems \in VerifiedCarts(sites)
            /\ result = Absent
            /\ inflight = {}
            /\ dispatches =
                   [k \in 1..Len(order) |->
                       Get(BareDispatch(its[order[k]], Qty(its[order[k]]),
                                        its[order[k]].site, order[k]))]
            /\ returns = [k \in 1..Len(order) |-> outcome[order[k]]]
            /\ launches = [j \in 1..Len(bySite) |-> bySite[j].site]
            /\ established = sites
            /\ aborted = {}
            /\ scrapes =
                   [j \in 1..Len(bySite) |->
                       [site |-> bySite[j].site,
                        at |-> Len(ProcessingOrder(SubSeq(bySite, 1, j), 1))]]
            /\ reply = Absent
            /\ CalcIdle
            /\ StreamIdle

\* The lists with which whole runs are followed, verification included:
\* no item, one item of any kind, or two plain items.
RunLists ==
    {<<>>} \cup { <<r>> : r \in RichItems } \cup [1..2 -> PlainItems]

\* runJob is called with any options.
RunInit ==
    /\ RunJobCalled(RunLists)
    /\ useOpenAI \in BOOLEAN
    /\ apiKey \in BOOLEAN
    /\ CalcIdle
    /\ StreamIdle

RunNext ==
    \/ Next
    \/ JudgeReturns

\* Every awaited operation settles: the driver and browser calls run under
\* the time limits of the automation library, the delays are timers, and
\* the collaborator's call has a time limit.
RunSpec == RunInit /\ [][RunNext]_vars /\ WF_vars(RunNext)

VerifyNext ==
    \/ RunJobReturn
    \/ JudgeReturns

VerifySpec == VerifyInit /\ [][VerifyNext]_vars

\* ------------------------------------------- calculateQuantityMultiplier
Digits == <<"0","1","2","3","4","5","6","7","8","9">>
IsDigit(c) == \E k \in 1..Len(Digits) : Digits[k] = c
DigitValue(c) == (CHOOSE k \in 1..Len(Digits) : Digits[k] = c) - 1
IsSpace(c) == c = " "

\* The unit alternatives of the pattern, in the order they are tried.
RegexUnits == << <<"k","g">>, <<"g">>, <<"l">>, <<"m","l">>,
                 <<"v","n","t">>, <<"p","a","c","k">> >>

\* The last position of the longest run of digits (\d+) that starts at
\* position k of t (k - 1 when there is none).
DigitsEnd(t, k) ==
    CHOOSE e \in (k - 1)..Len(t) :
        /\ \A j \in k..e : IsDigit(t[j])
        /\ e = Len(t) \/ ~IsDigit(t[e + 1])

\* The same for white space (\s*).
SpacesEnd(t, k) ==
    CHOOSE e \in (k - 1)..Len(t) :
        /\ \A j \in k..e : IsSpace(t[j])
        /\ e = Len(t) \/ ~IsSpace(t[e + 1])

\* Alternative u matches at position k of t, whatever the case (flag i).
UnitAt(t, k, u) ==
    /\ k + Len(u) - 1 <= Len(t)
    /\ \A j \in 1..Len(u) : LowerChar(t[k + j - 1]) = u[j]

\* /(\d+(?:\.\d+)?)\s*(kg|g|l|ml|vnt|pack)/i tried at position k of t:
\* Some([number, unit]) with the first group and the second group in lower
\* case, or Absent.
MatchAt(t, k) ==
    IF ~IsDigit(t[k]) THEN Absent
    ELSE LET intEnd == DigitsEnd(t, k)
             hasFraction == /\ intEnd + 2 <= Len(t)
                            /\ t[intEnd + 1] = "."
                            /\ IsDigit(t[intEnd + 2])
             numberEnd == IF hasFraction THEN DigitsEnd(t, intEnd + 2)
                          ELSE intEnd
             unitStart == SpacesEnd(t, numberEnd + 1) + 1
             found == {n \in 1..Len(RegexUnits) : UnitAt(t, unitStart, RegexUnits[n])}
         IN  IF found = {} THEN Absent
             ELSE Some([number |-> SubSeq(t, k, numberEnd),
                        unit |-> RegexUnits[CHOOSE n \in found : \A m \in found : n <= m]])

\* String.prototype.match with that pattern: the leftmost match.
QuantityMatch(t) ==
    LET starts == {k \in 1..Len(t) : MatchAt(t, k) # Absent} IN
    IF starts = {} THEN Absent
    ELSE MatchAt(t, CHOOSE k \in starts : \A m \in starts : k <= m)

RECURSIVE NatOf(_)
NatOf(digits) ==
    IF digits = <<>> THEN 0
    ELSE NatOf(SubSeq(digits, 1, Len(digits) - 1)) * 10
         + DigitValue(digits[Len(digits)])

RECURSIVE Pow10(_)
Pow10(n) == IF n = 0 THEN 1 ELSE 10 * Pow10(n - 1)

\* parseFloat of a text of the form digits or digits.digits, as the exact
\* fraction num / den.
ParseFloat(text) ==
    LET dots == {k \in 1..Len(text) : text[k] = "."}
        dot == IF dots = {} THEN Len(text) + 1 ELSE CHOOSE k \in dots : TRUE
        fraction == SubSeq(text, dot + 1, Len(text))
    IN  [num |-> NatOf(SubSeq(text, 1, dot - 1) \o fraction),
         den |-> Pow10(Len(fraction))]

\* JavaScript numbers returned by the function.
Finite(n) == [kind |-> "finite", value |-> n]
PlusInfinity == [kind |-> "infinity", value |-> 0]
NotANumber == [kind |-> "nan", value |-> 0]

Times1000(a) == [num |-> a.num * 1000, den |-> a.den]

\* a > b
GreaterThan(a, b) == a.num * b.den > b.num * a.den

\* Math.ceil(a / b) for a, b >= 0: x / 0 is Infinity, 0 / 0 is NaN.
CeilOfQuotient(a, b) ==
    LET p == a.num * b.den
        q == a.den * b.num
    IN  IF q = 0
        THEN IF p = 0 THEN NotANumber ELSE PlusInfinity
        ELSE Finite((p + q - 1) \div q)

\* Faulty variant of calculateQuantityMultiplier: litres and millilitres
\* are converted like kilograms and grams.
calculateQuantityMultiplierConvertsLitres(desired, title) ==
    LET desiredMatch == QuantityMatch(desired)
        productMatch == QuantityMatch(title)
        desiredAmount == ParseFloat(Get(desiredMatch).number)
        desiredUnit == Get(desiredMatch).unit
        productAmount == ParseFloat(Get(productMatch).number)
        productUnit == Get(productMatch).unit
    IN  IF desiredMatch = Absent THEN Finite(1)
        ELSE IF productMatch = Absent THEN Finite(1)
        ELSE IF desiredUnit # productUnit
             THEN IF \/ desiredUnit = <<"k","g">> /\ productUnit = <<"g">>
                     \/ desiredUnit = <<"l">> /\ productUnit = <<"m","l">>
                  THEN CeilOfQuotient(Times1000(desiredAmount), productAmount)
                  ELSE IF \/ desiredUnit = <<"g">> /\ productUnit = <<"k","g">>
                          \/ desiredUnit = <<"m","l">> /\ productUnit = <<"l">>
                       THEN CeilOfQuotient(desiredAmount, Times1000(productAmount))
                       ELSE Finite(1)
             ELSE IF GreaterThan(desiredAmount, productAmount)
                  THEN CeilOfQuotient(desiredAmount, productAmount)
                  ELSE Finite(1)

calculateQuantityMultiplier(desired, title) ==
    LET desiredMatch == QuantityMatch(desired)
        productMatch == QuantityMatch(title)
        desiredAmount == ParseFloat(Get(desiredMatch).number)
        desiredUnit == Get(desiredMatch).unit
        productAmount == ParseFloat(Get(productMatch).number)
        productUnit == Get(productMatch).unit
    IN  IF desiredMatch = Absent THEN Finite(1)
        ELSE IF productMatch = Absent THEN Finite(1)
        ELSE IF desiredUnit # productUnit
             THEN IF desiredUnit = <<"k","g">> /\ productUnit = <<"g">>
                  THEN CeilOfQuotient(Times1000(desiredAmount), productAmount)
                  ELSE IF desiredUnit = <<"g">> /\ productUnit = <<"k","g">>
                       THEN CeilOfQuotient(desiredAmount, Times1000(productAmount))
                       ELSE Finite(1)
             ELSE IF GreaterThan(desiredAmount, productAmount)
                  THEN CeilOfQuotient(desiredAmount, productAmount)
                  ELSE Finite(1)

\* The descriptors and labels the function is called with: an optional
\* prefix, an amount, optional white space and a unit; the amount or the
\* unit may be missing.
WrittenPrefixes == {<<>>, <<"2",".","5","%"," ">>}
WrittenAmounts == {<<>>, <<"0">>, <<"1">>, <<"2">>, <<"5","0","0">>,
                   <<"1","0","0","0">>, <<"1",".","5">>}
WrittenSeparators == {<<>>, <<" ">>}
WrittenUnits == {<<>>, <<"k","g">>, <<"K","G">>, <<"g">>, <<"l">>, <<"m","l">>,
                 <<"v","n","t">>, <<"p","a","c","k">>}
Writings == [prefix : WrittenPrefixes, amount : WrittenAmounts,
             separator : WrittenSeparators, unit : WrittenUnits]
TextOf(w) == w.prefix \o w.amount \o w.separator \o w.unit

\* calculateQuantityMultiplier is called.
CalcInit ==
    /\ RunJobCalled({<<>>})
    /\ headful = FALSE
    /\ useOpenAI = FALSE
    /\ apiKey = FALSE
    /\ written \in [desired : Writings, product : Writings]
    /\ desiredQuantity = TextOf(written.desired)
    /\ productTitle = TextOf(written.product)
    /\ multiplier = Absent
    /\ StreamIdle

\* calculateQuantityMultiplier returns.
Calculate ==
    /\ multiplier = Absent
    /\ multiplier' = Some(calculateQuantityMultiplier(desiredQuantity, productTitle))
    /\ UNCHANGED <<runner, desiredQuantity, productTitle, written, stream>>

CalcNext == Calculate

CalcSpec == CalcInit /\ [][CalcNext]_vars

\* ---------------------------------------------------------------- LogSink
\* The number of log calls followed.
MaxLogs == 3

LogLevels == {"info", "warn", "error", "done"}
Messages == {"m1", "m2"}

LogLine(level, message) == [level |-> level, message |-> message]

\* encoder.encode(JSON.stringify(logLine) + '\n'): the chunk, as the tokens
\* of its text.
LogChunk(logLine) ==
    <<"{", "level", logLine.level, "message", logLine.message, "}", "\n">>

\* setController(controller)
setController(c) ==
    /\ controller' = Some(c)
    /\ UNCHANGED <<logs, enqueued, closes, calls>>

\* Faulty variant of log: the controller is not looked at and nothing is
\* enqueued.
logWithoutStream(level, message) ==
    /\ logs' = Append(logs, LogLine(level, message))
    /\ calls' = Append(calls, [level |-> level, message |-> message,
                               controller |-> controller])
    /\ UNCHANGED <<controller, enqueued, closes>>

\* log(level, message): the line is pushed on logs and, if there is a
\* controller, enqueued on it.  The history entry keeps the controller the
\* sink had at the call.
log(level, message) ==
    /\ logs' = Append(logs, LogLine(level, message))
    /\ IF controller # Absent
       THEN enqueued' = [enqueued EXCEPT ![Get(controller)] =
                            Append(@, LogChunk(LogLine(level, message)))]
       ELSE UNCHANGED enqueued
    /\ calls' = Append(calls, [level |-> level, message |-> message,
                               controller |-> controller])
    /\ UNCHANGED <<controller, closes>>

\* A LogSink used on its own: no route is running.
SinkAlone ==
    /\ routePc = "none"
    /\ UNCHANGED <<runner, calc, routePc, settled>>

SetController ==
    /\ SinkAlone
    /\ \E c \in Controllers : setController(c)

Info ==
    /\ SinkAlone
    /\ Len(calls) < MaxLogs
    /\ \E message \in Messages : log("info", message)

Warn ==
    /\ SinkAlone
    /\ Len(calls) < MaxLogs
    /\ \E message \in Messages : log("warn", message)

LogError ==
    /\ SinkAlone
    /\ Len(calls) < MaxLogs
    /\ \E message \in Messages : log("error", message)

Done ==
    /\ SinkAlone
    /\ Len(calls) < MaxLogs
    /\ \E message \in Messages : log("done", message)

\* new LogSink()
LogInit ==
    /\ RunJobCalled({<<>>})
    /\ headful = FALSE
    /\ useOpenAI = FALSE
    /\ apiKey = FALSE
    /\ CalcIdle
    /\ StreamIdle

LogNext ==
    \/ SetController
    \/ Info
    \/ Warn
    \/ LogError
    \/ Done

LogSpec == LogInit /\ [][LogNext]_vars

\* --------------------------------------------------- POST /api/run stream
\* The lists with which the route is followed: no item, one request with
\* two candidates, two plain requests of one site.
RouteLists ==
    { <<>>,
      <<CartItem("barbora", None, None, Some(2),
                 Some(<<[type |-> "query", value |-> "q1"],
                        [type |-> "url", value |-> "u1"]>>))>>,
      <<CartItem("barbora", None, "q1", Some(2), Absent),
        CartItem("barbora", None, "q1", Some(2), Absent)>> }

\* The levels runJob and what it calls log at while the route awaits it.
RunLevels == {"info", "done"}

\* encoder.encode(JSON.stringify({type: "judgments", data}) + "\n"): the
\* chunk, as the tokens of its text.
JudgmentMessage(res) ==
    <<"{", "type", "judgments", "data",
      [judgments |-> Get(res.judgments), originalItems |-> res.originalItems,
       addedItems |-> res.addedItems, failedItems |-> res.failedItems],
      "}", "\n">>

\* controller.close(); the history entry keeps how many chunks the
\* controller had been given when it was closed.
close(c, queue) ==
    closes' = [closes EXCEPT ![c] = Append(@, Len(queue))]

\* runJob or something it awaits logs a line while the route awaits it.
RunJobLogs ==
    /\ routePc = "running"
    /\ pc \notin {"done", "rejected"}
    /\ Len(calls) < MaxLogs
    /\ \E level \in RunLevels : log(level, "m1")
    /\ UNCHANGED <<runner, calc, routePc, settled>>

\* Faulty variant of RunJobResolves: the controller is closed before the
\* judgments message is enqueued.
RunJobResolvesClosesFirst ==
    /\ routePc = "running"
    /\ pc = "done"
    /\ settled' = Some("resolved")
    /\ close(Get(controller), enqueued[Get(controller)])
    /\ enqueued' = IF Get(result).judgments # Absent
                   THEN [enqueued EXCEPT ![Get(controller)] =
                            Append(@, JudgmentMessage(Get(result)))]
                   ELSE enqueued
    /\ routePc' = "closed"
    /\ UNCHANGED <<runner, calc, logs, controller, calls>>

\* await runJob(...) resolves: the judgments message is enqueued if
\* result.judgments is truthy (a list, even an empty one), and the finally
\* block closes the controller.
RunJobResolves ==
    /\ routePc = "running"
    /\ pc = "done"
    /\ settled' = Some("resolved")
    /\ enqueued' = IF Get(result).judgments # Absent
                   THEN [enqueued EXCEPT ![Get(controller)] =
                            Append(@, JudgmentMessage(Get(result)))]
                   ELSE enqueued
    /\ close(Get(controller), enqueued'[Get(controller)])
    /\ routePc' = "closed"
    /\ UNCHANGED <<runner, calc, logs, controller, calls>>

\* await runJob(...) rejects (options.items holds something that is not an
\* item, and the grouping loop reads its site): the catch block logs the
\* fatal error and the finally block closes the controller.
RunJobRejects ==
    /\ routePc = "running"
    /\ pc = "start"
    /\ pc' = "rejected"
    /\ settled' = Some("rejected")
    /\ logs' = Append(logs, LogLine("error", "Fatal error"))
    /\ enqueued' = [enqueued EXCEPT ![Get(controller)] =
                        Append(@, LogChunk(LogLine("error", "Fatal error")))]
    /\ calls' = Append(calls, [level |-> "error", message |-> "Fatal error",
                               controller |-> controller])
    /\ close(Get(controller), enqueued'[Get(controller)])
    /\ routePc' = "closed"
    /\ UNCHANGED <<calc, verification, inputs, result, s, context, locals,
                   outputs, totals, inflight, history, aborted, controller>>

\* POST: the body has an items array; the stream is constructed and
\* start(controller) has made the LogSink, set its controller and called
\* runJob.
RouteInit ==
    /\ RunJobCalled(RouteLists)
    /\ headful = FALSE
    /\ useOpenAI \in BOOLEAN
    /\ apiKey \in BOOLEAN
    /\ CalcIdle
    /\ logs = <<>>
    /\ controller = Some("c1")
    /\ enqueued = [c \in Controllers |-> <<>>]
    /\ closes = [c \in Controllers |-> <<>>]
    /\ calls = <<>>
    /\ routePc = "running"
    /\ settled = Absent

RouteNext ==
    \/ RunNext
    \/ RunJobLogs
    \/ RunJobResolves
    \/ RunJobRejects

RouteSpec == RouteInit /\ [][RouteNext]_vars

\* ------------------------------------------------------------- properties
\* Every record pushed so far, finished sites first.
AllAdded == allAddedItems \o addedItems
AllFailed == allFailedItems \o failedItems

AddedFor(r) == SelectSeq(AllAdded, LAMBDA a : a.req = r)
FailedFor(r) == SelectSeq(AllFailed, LAMBDA f : f.req = r)
Recorded(r) == Len(AddedFor(r)) + Len(FailedFor(r))

\* Calls that have returned.
Returned == 1..Len(returns)

\* The alternatives loop of request r is still running.
InAlternativesOf(r) ==
    pc \in {"altLoop", "altAwait", "altEnd"} /\ CurReq = r

\* C1: on the alternatives path, when the call for candidate k of a request
\* resolves, the request has exactly one AddedItem, which carries the
\* product name that call returned and the quantity requested, and no
\* FailedItem.
C1_FirstSuccessRecorded ==
    \A d \in Returned :
        (dispatches[d].alt >= 1 /\ returns[d].ok) =>
            LET r == dispatches[d].req
                added == AddedFor(r)
            IN  /\ Len(added) = 1
                /\ added[1].productAdded = returns[d].productName
                /\ added[1].quantityRequested = Qty(items[r])
                /\ added[1].originalRequest = Alternatives(items[r])[1].value
                /\ Len(FailedFor(r)) = 0

\* A request [A, B]: the call for A rejected, the call for B resolved, and
\* the AddedItem is there.
C1_Witness ==
    \E d \in Returned :
        /\ dispatches[d].alt = 2
        /\ returns[d].ok
        /\ d > 1 /\ ~returns[d - 1].ok /\ dispatches[d - 1].req = dispatches[d].req
        /\ Len(AddedFor(dispatches[d].req)) = 1

\* Every alternative of request r was dispatched and rejected.
Exhausted(r) ==
    /\ HasAlternatives(items[r])
    /\ \A k \in 1..Len(Alternatives(items[r])) :
          \E d \in Returned :
              dispatches[d].req = r /\ dispatches[d].alt = k /\ ~returns[d].ok

\* The error of the last call made for request r.
LastErrorOf(r) ==
    LET ds == {d \in Returned : dispatches[d].req = r}
        last == CHOOSE d \in ds : \A e \in ds : e <= d
    IN  returns[last].error

\* C2: when every candidate of a request failed, the request has exactly
\* one FailedItem, identified by the first candidate, with reason and
\* details taken from the error of the last candidate, and no AddedItem.
C2_ExhaustedRecorded ==
    \A r \in 1..Len(items) :
        (Exhausted(r) /\ ~InAlternativesOf(r)) =>
            LET failed == FailedFor(r)
                first == Alternatives(items[r])[1]
                text == ErrorPrefix \o LastErrorOf(r)
            IN  /\ Len(failed) = 1
                /\ failed[1].query = (IF first.type = "query" THEN first.value ELSE None)
                /\ failed[1].url = (IF first.type = "url" THEN first.value ELSE None)
                /\ failed[1].details = text
                /\ failed[1].reason = ReasonOf[text]
                /\ Len(AddedFor(r)) = 0

\* A request [A, B] with A # B whose two calls rejected with errors of
\* different reasons, and its FailedItem.
C2_Witness ==
    \E r \in 1..Len(items) :
        /\ Exhausted(r)
        /\ Len(Alternatives(items[r])) = 2
        /\ Alternatives(items[r])[1] # Alternatives(items[r])[2]
        /\ Len(FailedFor(r)) = 1
        /\ \E d \in Returned :
              /\ dispatches[d].req = r
              /\ dispatches[d].alt = 1
              /\ ReasonOf[ErrorPrefix \o returns[d].error] # FailedFor(r)[1].reason

\* C3: the calls made for a request follow its alternatives in order: the
\* call for candidate k is for that candidate's value and kind, the call
\* for the first candidate is the first call of the request, the call for
\* candidate k+1 directly follows a rejected call for candidate k, and no
\* candidate is called twice.
C3_DispatchPrefix ==
    \A d \in 1..Len(dispatches) :
        LET x == dispatches[d]
            item == items[x.req]
        IN  HasAlternatives(item) =>
              /\ x.alt \in 1..Len(Alternatives(item))
              /\ x.value = Alternatives(item)[x.alt].value
              /\ x.op = (IF Alternatives(item)[x.alt].type = "url"
                         THEN "addByUrl" ELSE "addByQuery")
              /\ x.alt = 1 => \A e \in 1..(d - 1) : dispatches[e].req # x.req
              /\ x.alt > 1 => /\ dispatches[d - 1].req = x.req
                              /\ dispatches[d - 1].alt = x.alt - 1
                              /\ ~returns[d - 1].ok
              /\ \A e \in 1..Len(dispatches) :
                    (e # d /\ dispatches[e].req = x.req) => dispatches[e].alt # x.alt

\* The second candidate of a request was called after the first rejected.
C3_Witness ==
    \E d \in 1..Len(dispatches) :
        /\ dispatches[d].alt = 2
        /\ dispatches[d - 1].alt = 1
        /\ dispatches[d - 1].req = dispatches[d].req
        /\ dispatches[d].value # dispatches[d - 1].value

\* C4 as stated: every driver call made for a request carries the request's
\* qty, or 1 when the request has no qty.
C4_QtyOrOneWhenAbsent ==
    \A d \in 1..Len(dispatches) :
        LET asked == items[dispatches[d].req].qty IN
        dispatches[d].qty = (IF asked = Absent THEN 1 ELSE Get(asked))

\* C4 (amended): every driver call made for a request carries the request's
\* qty, or 1 when the request has no qty or a qty of 0, whichever candidate
\* is tried and however many candidates failed before; so all calls of one
\* request carry the same quantity.
C4_SameQuantityForEveryCandidate ==
    \A d \in 1..Len(dispatches) :
        LET asked == items[dispatches[d].req].qty IN
        /\ dispatches[d].qty =
               (IF asked = Absent \/ asked = Some(0) THEN 1 ELSE Get(asked))
        /\ \A e \in 1..Len(dispatches) :
              dispatches[e].req = dispatches[d].req =>
                  dispatches[e].qty = dispatches[d].qty

\* A fallback candidate was called with the requested quantity 2 after the
\* first candidate of the same request failed.
C4_WitnessFallback ==
    \E d \in 1..Len(dispatches) :
        /\ dispatches[d].alt = 2
        /\ dispatches[d].qty = 2
        /\ items[dispatches[d].req].qty = Some(2)
        /\ dispatches[d - 1].req = dispatches[d].req
        /\ ~returns[d - 1].ok

\* The sites processSite has returned for.
FinishedSites == {j \in 1..Len(itemsBySite) : j < s}

\* The positions of the requests of site entry j.
ReqsOf(j) == {itemsBySite[j].reqs[k] : k \in 1..Len(itemsBySite[j].reqs)}

DispatchesOf(site) == {d \in 1..Len(dispatches) : dispatches[d].site = site}

\* The records pushed for site.
RecordsOf(site) ==
    Len(SelectSeq(AllAdded, LAMBDA a : a.site = site))
    + Len(SelectSeq(AllFailed, LAMBDA f : f.site = site))

ContainsIgnoringCase(text, key) ==
    \E k \in 0..(Len(text) - Len(key)) :
        \A j \in 1..Len(key) : LowerChar(text[k + j]) = key[j]

\* The reason the rule gives for each text a FailedItem can carry as its
\* details: out_of_stock if the text contains "out_of_stock" in any case;
\* otherwise not_found if it contains "not_found" or "not found" in any
\* case; otherwise error.
ReasonByRule ==
    [text \in {ErrorPrefix \o m : m \in DriverErrors} \cup {<<>>} |->
        IF ContainsIgnoringCase(text, KeyOutOfStock) THEN "out_of_stock"
        ELSE IF \/ ContainsIgnoringCase(text, KeyNotFound)
                \/ ContainsIgnoringCase(text, KeyNotFoundSpaced)
             THEN "not_found"
             ELSE "error"]

\* C7: the reason of every FailedItem is the one the rule gives for its
\* details (case-insensitive, out_of_stock before not_found before error),
\* for the records of the alternatives path and of the bare path alike.
C7_ReasonClassification ==
    \A k \in 1..Len(AllFailed) :
        /\ AllFailed[k].details \in DOMAIN ReasonByRule
        /\ AllFailed[k].reason = ReasonByRule[AllFailed[k].details]

\* A FailedItem of the alternatives path whose details name both keys, in
\* mixed case, and which is out_of_stock; and a FailedItem of the bare path
\* whose details hold "Not Found" and which is not_found.
C7_Witness ==
    \E k, m \in 1..Len(AllFailed) :
        /\ HasAlternatives(items[AllFailed[k].req])
        /\ AllFailed[k].details = ErrorPrefix \o MsgBoth
        /\ AllFailed[k].reason = "out_of_stock"
        /\ ~HasAlternatives(items[AllFailed[m].req])
        /\ AllFailed[m].details = ErrorPrefix \o MsgSpaced
        /\ AllFailed[m].reason = "not_found"

\* The requests of the records of a list, in the order of the list.
InInputOrder(list) ==
    \A p, q \in 1..Len(list) : list[p].req < list[q].req => p < q

\* C8 as stated: in addedItems and in failedItems, the record of a request
\* supplied earlier precedes the record of a request supplied later.
C8_RecordsInInputOrder ==
    InInputOrder(AllAdded) /\ InInputOrder(AllFailed)

\* The same for the records of one site only.
InInputOrderPerSite(list) ==
    \A p, q \in 1..Len(list) :
        (list[p].site = list[q].site /\ list[p].req < list[q].req) => p < q

\* C8 (amended): in addedItems and in failedItems, of two requests of the
\* same site the record of the one supplied earlier precedes the record of
\* the one supplied later; so it is in the lists runJob returns.
C8_RecordsInInputOrderPerSite ==
    /\ InInputOrderPerSite(AllAdded)
    /\ InInputOrderPerSite(AllFailed)
    /\ result # Absent =>
          /\ InInputOrderPerSite(Get(result).addedItems)
          /\ InInputOrderPerSite(Get(result).failedItems)

\* Three requests, the second of another site than the first and the third:
\* the returned addedItems hold the records of the first, the third and the
\* second request, in this order.
C8_Witness ==
    /\ result # Absent
    /\ Len(Get(result).addedItems) = 3
    /\ Get(result).addedItems[1].req = 1
    /\ Get(result).addedItems[2].req = 3
    /\ Get(result).addedItems[3].req = 2
    /\ Get(result).addedItems[1].site = Get(result).addedItems[2].site

\* The position of request r in the list of its site.
PositionInSite(j, r) ==
    CHOOSE k \in 1..Len(itemsBySite[j].reqs) : itemsBySite[j].reqs[k] = r

\* C9: a site's session is used by one operation at a time: at most one
\* operation is awaited at any moment, it belongs to the site being
\* processed and, unless it is the launch, runs in that site's open context;
\* when a call is made for a request, every earlier request of its site has
\* its record already; and a site is launched at most once, every call of
\* the site being made in the session that launch established.
C9_SessionExclusive ==
    /\ Cardinality(inflight) <= 1
    /\ \A o \in inflight :
          /\ o.site = CurSite
          /\ o.op # "launch" => context = "open"
    /\ \A d \in 1..Len(dispatches) :
          LET x == dispatches[d] IN
          /\ x.site \in established
          /\ \E j \in 1..Len(itemsBySite) :
                /\ itemsBySite[j].site = x.site
                /\ x.req \in ReqsOf(j)
                /\ \A k \in 1..(PositionInSite(j, x.req) - 1) :
                      Recorded(itemsBySite[j].reqs[k]) = 1
    /\ \A j, k \in 1..Len(launches) : launches[j] = launches[k] => j = k

\* The second request of a site is being called after the first request of
\* the site exhausted two candidates and was recorded.
C9_Witness ==
    /\ pc \in {"altAwait", "bareAwait"}
    /\ i = 2
    /\ Cardinality(inflight) = 1
    /\ Exhausted(CurReqs[1])
    /\ Len(Alternatives(items[CurReqs[1]])) = 2
    /\ Recorded(CurReqs[1]) = 1
    /\ dispatches[Len(dispatches)].req = CurReqs[2]

\* A request with only a url or only a query, and no alternatives.
IsBare(item) ==
    /\ ~HasAlternatives(item)
    /\ TruthyStr(item.url) # TruthyStr(item.query)

\* The same request given as a one-element alternatives list.
AsAlternatives(item) ==
    CartItem(item.site, None, None, item.qty,
             Some(<<IF TruthyStr(item.url)
                    THEN [type |-> "url", value |-> item.url]
                    ELSE [type |-> "query", value |-> item.query]>>))

\* C10: for a request with only a url or only a query, the single call made
\* and the record pushed are those the alternatives path makes and pushes
\* for the same request given as a one-element alternatives list: one call
\* of the same kind, for the same value and quantity, and the same AddedItem
\* when it resolves, the same FailedItem when it rejects.
C10_BareAsOneAlternative ==
    \A d \in 1..Len(dispatches) :
        LET x == dispatches[d]
            item == items[x.req]
            norm == AsAlternatives(item)
            call == AltDispatch(norm, 1, Qty(norm), x.site, x.req)
        IN  IsBare(item) =>
              /\ \A e \in 1..Len(dispatches) : dispatches[e].req = x.req => e = d
              /\ Len(Alternatives(norm)) = 1
              /\ x.op = call.op /\ x.value = call.value /\ x.qty = call.qty
              /\ d \in Returned =>
                    IF returns[d].ok
                    THEN /\ AddedFor(x.req) =
                              <<AltAddedItem(norm, returns[d], Qty(norm), x.site, x.req)>>
                         /\ FailedFor(x.req) = <<>>
                    ELSE /\ FailedFor(x.req) =
                              <<AltFailedItem(norm, Some(returns[d].error), x.site, x.req)>>
                         /\ AddedFor(x.req) = <<>>

\* A request with only a query whose call resolved and a request with only
\* a url whose call rejected, both recorded.
C10_Witness ==
    \E d, e \in Returned :
        /\ IsBare(items[dispatches[d].req])
        /\ dispatches[d].op = "addByQuery"
        /\ returns[d].ok
        /\ Len(AddedFor(dispatches[d].req)) = 1
        /\ IsBare(items[dispatches[e].req])
        /\ dispatches[e].op = "addByUrl"
        /\ ~returns[e].ok
        /\ Len(FailedFor(dispatches[e].req)) = 1

\* ------------------------------- properties of calculateQuantityMultiplier
\* A descriptor as it was written carries a <number><unit> pattern.
HasPattern(w) == w.amount # <<>> /\ w.unit # <<>>

\* The unit it was written with, in lower case.
UnitWritten(w) == IF w.unit = <<"K","G">> THEN <<"k","g">> ELSE w.unit

\* The amount it was written with, in thousandths.
Thousandths(w) ==
    CASE w.amount = <<"0">> -> 0
      [] w.amount = <<"1">> -> 1000
      [] w.amount = <<"2">> -> 2000
      [] w.amount = <<"5","0","0">> -> 500000
      [] w.amount = <<"1","0","0","0">> -> 1000000
      [] w.amount = <<"1",".","5">> -> 1500

\* The amount on the gram scale (kg taken 1000 times), in thousandths.
GramsWritten(w) ==
    IF UnitWritten(w) = <<"k","g">> THEN 1000 * Thousandths(w) ELSE Thousandths(w)

Returned1 == multiplier = Some(Finite(1))

\* n is ceil(d / p) when d > p, and 1 otherwise.
IsCeilOrOne(n, d, p) ==
    IF d > p THEN n * p >= d /\ (n - 1) * p < d ELSE n = 1

\* C11: the value calculateQuantityMultiplier returns is an integer >= 1,
\* and it is 1 when an extracted amount is zero.
C11_IntegerAtLeastOne ==
    multiplier # Absent =>
        /\ Get(multiplier).kind = "finite"
        /\ Get(multiplier).value >= 1
        /\ ( /\ HasPattern(written.desired) /\ HasPattern(written.product)
             /\ Thousandths(written.desired) = 0 \/ Thousandths(written.product) = 0 )
           => Returned1

\* C12: when both texts carry the same unit, the value returned is
\* ceil(desiredAmount / productAmount) if desiredAmount > productAmount and
\* 1 otherwise, so that the value times productAmount is at least
\* desiredAmount.
C12_SameUnitCeil ==
    ( /\ multiplier # Absent
      /\ HasPattern(written.desired) /\ HasPattern(written.product)
      /\ UnitWritten(written.desired) = UnitWritten(written.product) )
    => LET d == Thousandths(written.desired)
           p == Thousandths(written.product)
       IN  /\ Get(multiplier).kind = "finite"
           /\ IsCeilOrOne(Get(multiplier).value, d, p)
           /\ Get(multiplier).value * p >= d

\* C13: when one unit is kg and the other is g, the value returned is
\* ceil(desired in grams / product in grams) when the desired amount is the
\* larger one on the gram scale, and 1 otherwise.
C13_KgGramsCeil ==
    ( /\ multiplier # Absent
      /\ HasPattern(written.desired) /\ HasPattern(written.product)
      /\ {UnitWritten(written.desired), UnitWritten(written.product)}
             = {<<"k","g">>, <<"g">>} )
    => /\ Get(multiplier).kind = "finite"
       /\ IsCeilOrOne(Get(multiplier).value, GramsWritten(written.desired),
                      GramsWritten(written.product))

\* C14: when the two units differ and are not kg and g, or when one of the
\* two texts carries no <number><unit> pattern, the value returned is 1,
\* whatever the amounts.
C14_NotConvertibleIsOne ==
    ( /\ multiplier # Absent
      /\ \/ ~HasPattern(written.desired)
         \/ ~HasPattern(written.product)
         \/ /\ UnitWritten(written.desired) # UnitWritten(written.product)
            /\ {UnitWritten(written.desired), UnitWritten(written.product)}
                   # {<<"k","g">>, <<"g">>} )
    => Returned1

\* "2l" against a label "2.5% 500 ml": 1 is returned, where a conversion
\* would give 4.
C14_Witness ==
    /\ Returned1
    /\ written.desired.amount = <<"2">>
    /\ written.desired.unit = <<"l">>
    /\ written.product.prefix # <<>>
    /\ written.product.amount = <<"5","0","0">>
    /\ written.product.unit = <<"m","l">>

\* ------------------------------------------------ properties of judgeCart
\* The Judgments runJob returned (none while there is no result, or when
\* judgments is null).
Judgments ==
    IF result # Absent /\ Get(result).judgments # Absent
    THEN Get(Get(result).judgments)
    ELSE <<>>

\* Verification completed: judgeCart returned Judgments.
VerificationCompleted == Len(Judgments) > 0

\* The Judgments about the request labelled label.
JudgmentsAbout(label) ==
    {k \in 1..Len(Judgments) : Judgments[k].originalRequest = label}

\* The requests labelled label.
RequestsLabelled(label) ==
    {r \in 1..Len(items) : RequestLabel(items[r]) = label}

\* Request r has no AddedItem.
NotAdded(r) == \A k \in 1..Len(allAddedItems) : allAddedItems[k].req # r

\* C15: whenever verification completes, judgeCart returns as many
\* Judgments as there are original requests, and every original request is
\* the subject of one of them.
C15_OneJudgmentPerRequest ==
    VerificationCompleted =>
        /\ Len(Judgments) = Len(items)
        /\ \A r \in 1..Len(items) :
              Cardinality(JudgmentsAbout(RequestLabel(items[r])))
                  = Cardinality(RequestsLabelled(RequestLabel(items[r])))

\* C16: in every Judgment returned, status is success exactly if matchScore
\* >= 95, and status is failed whenever matchScore < 50 or the request has
\* no AddedItem.
C16_StatusFollowsScore ==
    \A k \in 1..Len(Judgments) :
        LET j == Judgments[k] IN
        /\ j.status = "success" <=> j.matchScore >= 95
        /\ j.matchScore < 50 => j.status = "failed"
        /\ ( /\ RequestsLabelled(j.originalRequest) # {}
             /\ \A r \in RequestsLabelled(j.originalRequest) : NotAdded(r) )
           => j.status = "failed"

\* C17: when a scraped cart line carries the product of a request's
\* AddedItem with another quantity than its quantityAdded, the Judgment of
\* that request is not success.
C17_QuantityMismatchNeverSuccess ==
    \A k \in 1..Len(Judgments) :
        \A a \in 1..Len(allAddedItems) :
            \A c \in 1..Len(allActualCartItems) :
                ( /\ allAddedItems[a].originalRequest = Judgments[k].originalRequest
                  /\ allActualCartItems[c].productName = allAddedItems[a].productAdded
                  /\ allActualCartItems[c].quantity # allAddedItems[a].quantityAdded )
                => Judgments[k].status # "success"

\* C18: whenever verification completes, every original request without an
\* AddedItem (and the only one of its label) has a Judgment, with status
\* failed, matchScore 0 and notes ["not added"].
C18_NotAddedJudgedFailed ==
    VerificationCompleted =>
        \A r \in 1..Len(items) :
            (NotAdded(r) /\ RequestsLabelled(RequestLabel(items[r])) = {r}) =>
                /\ JudgmentsAbout(RequestLabel(items[r])) # {}
                /\ \A k \in JudgmentsAbout(RequestLabel(items[r])) :
                      /\ Judgments[k].status = "failed"
                      /\ Judgments[k].matchScore = 0
                      /\ Judgments[k].notes = <<"not added">>

\* The snapshot of the cart of site is empty: rimi has no scrape, and
\* barbora is the only site whose scrape gives lines.
SnapshotEmpty(site) == site = "rimi" \/ allActualCartItems = <<>>

\* C19: no Judgment is returned about a request of a site whose cart
\* snapshot is empty.
C19_EmptySnapshotNotJudged ==
    \A k \in 1..Len(Judgments) :
        \A r \in RequestsLabelled(Judgments[k].originalRequest) :
            ~SnapshotEmpty(items[r].site)

\* C20: every Judgment returned has a matchScore within 0..100.
C20_ScoreWithinRange ==
    \A k \in 1..Len(Judgments) : Judgments[k].matchScore \in 0..100

\* The comparison step could not complete: the collaborator's call rejected,
\* its message had no content, the content was not JSON, or the JSON held
\* no list.
ComparisonFailed ==
    /\ reply # Absent
    /\ Get(reply).kind \in {"rejected", "noContent", "invalidJson", "noList"}

\* The records of the lists of the result account for every driver call
\* that resolved and for every request whose last call rejected.
ResultHoldsEveryOutcome ==
    \A d \in 1..Len(returns) :
        IF returns[d].ok
        THEN \E k \in 1..Len(Get(result).addedItems) :
                /\ Get(result).addedItems[k].req = dispatches[d].req
                /\ Get(result).addedItems[k].productAdded = returns[d].productName
        ELSE (\A e \in 1..Len(returns) : dispatches[e].req = dispatches[d].req => e <= d)
             => \E k \in 1..Len(Get(result).failedItems) :
                   /\ Get(result).failedItems[k].req = dispatches[d].req
                   /\ Get(result).failedItems[k].details = ErrorPrefix \o returns[d].error

\* C21: when the comparison step cannot complete, judgeCart returns an
\* empty list of Judgments without throwing, and runJob returns its result
\* with that empty list, the original items and the full addedItems and
\* failedItems.
C21_FailedComparisonGivesEmptyJudgments ==
    ComparisonFailed =>
        /\ pc = "done"
        /\ result # Absent
        /\ Get(result).judgments = Some(<<>>)
        /\ Get(result).originalItems = items
        /\ Get(result).addedItems = allAddedItems
        /\ Get(result).failedItems = allFailedItems
        /\ ResultHoldsEveryOutcome

\* The collaborator answered with text that is not JSON after a run that
\* added one request and failed another; runJob returned both records.
C21_Witness ==
    /\ ComparisonFailed
    /\ Get(reply).kind = "invalidJson"
    /\ result # Absent
    /\ Get(result).judgments = Some(<<>>)
    /\ Len(Get(result).addedItems) = 1
    /\ Len(Get(result).failedItems) = 1

\* C22: the call of judgeCart leaves the four lists it is given as they
\* were, whether the comparison completes or not, and the result runJob
\* then returns holds the original items and the addedItems and failedItems
\* lists as they were built before the call.
C22_JudgeCartLeavesInputs ==
    [][pc = "judge" =>
          /\ items' = items
          /\ allAddedItems' = allAddedItems
          /\ allFailedItems' = allFailedItems
          /\ allActualCartItems' = allActualCartItems
          /\ result' # Absent
          /\ Get(result').originalItems = items
          /\ Get(result').addedItems = allAddedItems
          /\ Get(result').failedItems = allFailedItems]_vars

\* judgeCart returned two Judgments for a run that added one request,
\* failed another and scraped a cart line; the lists are still there.
C22_Witness ==
    /\ reply # Absent
    /\ Get(reply).kind = "items"
    /\ Len(Judgments) = 2
    /\ Len(allAddedItems) = 1
    /\ Len(allFailedItems) = 1
    /\ Len(allActualCartItems) = 1
    /\ Get(result).addedItems = allAddedItems
    /\ Get(result).failedItems = allFailedItems

\* The scrapes started for site.
ScrapesOf(site) == {k \in 1..Len(scrapes) : scrapes[k].site = site}

\* When a scrape was started every request of its site had its record, and
\* no driver call was made for the site after it.
ScrapeAfterEveryRequest ==
    \A k \in 1..Len(scrapes) :
        /\ \A j \in 1..Len(itemsBySite) :
              itemsBySite[j].site = scrapes[k].site =>
                  \A r \in ReqsOf(j) : Recorded(r) = 1
        /\ \A d \in 1..Len(dispatches) :
              dispatches[d].site = scrapes[k].site => d <= scrapes[k].at

C25_QuantityPreserved ==
    \A k \in 1..Len(AllAdded) :
        /\ AllAdded[k].quantityRequested = Qty(items[AllAdded[k].req])
        /\ AllAdded[k].quantityAdded = Qty(items[AllAdded[k].req])

\* list is the beginning of longer.
IsPrefix(list, longer) ==
    Len(list) <= Len(longer) /\ SubSeq(longer, 1, Len(list)) = list

\* C23: every run of runJob ends, whatever calls fail; when it has ended
\* it has returned a result with judgments (null or a list), the original
\* items, and addedItems and failedItems lists that hold every record
\* pushed during the run, one for each driver call that resolved and one
\* for each request that failed; and no step of the run removes a record
\* that was pushed.
C23_AlwaysAFullReport ==
    /\ <>(pc = "done")
    /\ [](pc = "done" =>
            /\ result # Absent
            /\ Get(result).originalItems = items
            /\ Get(result).addedItems = AllAdded
            /\ Get(result).failedItems = AllFailed
            /\ ResultHoldsEveryOutcome)
    /\ [][IsPrefix(AllAdded, AllAdded') /\ IsPrefix(AllFailed, AllFailed')]_vars

\* runJob has returned after a run of two sites in which a driver call
\* resolved, another rejected and the collaborator's call rejected.
C23_Witness ==
    /\ pc = "done"
    /\ result # Absent
    /\ Len(itemsBySite) = 2
    /\ Len(Get(result).addedItems) = 1
    /\ Len(Get(result).failedItems) = 1
    /\ Get(result).addedItems[1].site # Get(result).failedItems[1].site
    /\ reply # Absent
    /\ Get(reply).kind = "rejected"

\* C27: every driver call carries a quantity of at least 1, whatever the
\* qty of the item (absent, 0, negative or another value), and carries 1
\* when the qty is absent or 0.
C27_DispatchedQuantityAtLeastOne ==
    \A d \in 1..Len(dispatches) :
        LET asked == items[dispatches[d].req].qty IN
        /\ dispatches[d].qty >= 1
        /\ (asked = Absent \/ asked = Some(0)) => dispatches[d].qty = 1

\* C28: in the result of runJob the number of addedItems plus the number
\* of failedItems is the number of originalItems, and every original item
\* has exactly one record.
C28_EveryItemAccountedFor ==
    (pc = "done" /\ result # Absent) =>
        /\ Len(Get(result).addedItems) + Len(Get(result).failedItems)
               = Len(Get(result).originalItems)
        /\ \A r \in 1..Len(items) : Recorded(r) = 1

\* processSite has returned for a site and the next one is not yet begun.
JustReturned == pc \in {"nextSite", "judge", "done"} /\ s > 1

\* The site processSite returned for last.
LastSite == itemsBySite[s - 1].site

\* C29: when processSite returns in headless mode the context it launched
\* is closed (there is none if the launch failed), on the normal path and
\* on the error path; in headful mode the context is open when processSite
\* returns on the normal path and closed when the batch was aborted after
\* a launch; and every operation awaited on a context finds it open.
C29_SessionLifecycle ==
    /\ JustReturned =>
          /\ context = "null" => (LastSite \in aborted /\ LastSite \notin established)
          /\ LastSite \in aborted => context \in {"null", "closed"}
          /\ LastSite \notin aborted =>
                context = (IF headful THEN "open" ELSE "closed")
    /\ \A o \in inflight : o.op # "launch" => context = "open"
    /\ (pc = "launch") => context = "null"

\* A headful run: the first site was aborted after its launch and its
\* context was closed; it was the first of two sites.
C29_Witness ==
    /\ headful
    /\ pc = "nextSite"
    /\ s = 2
    /\ Len(itemsBySite) = 2
    /\ LastSite \in aborted
    /\ context = "closed"

\* ------------------------------------------------- properties of LogSink
\* JSON.parse of the text of a chunk, as the reader of the stream does it.
ParseChunk(chunk) == [level |-> chunk[3], message |-> chunk[5]]

\* The log calls made while c was the controller of the sink.
CallsWith(c) == SelectSeq(calls, LAMBDA call : call.controller = Some(c))

\* C26: after any sequence of info/warn/error/done calls, getLogs() is the
\* sequence of the {level, message} entries of the calls, in call order,
\* and the chunks enqueued on the controller are those of the entries
\* logged after setController, in the same order.
C26_OrderedAppendOnly ==
    /\ logs = [k \in 1..Len(calls) |-> LogLine(calls[k].level, calls[k].message)]
    /\ \A c \in Controllers :
          [k \in 1..Len(enqueued[c]) |-> ParseChunk(enqueued[c][k])]
              = [k \in 1..Len(CallsWith(c)) |->
                    LogLine(CallsWith(c)[k].level, CallsWith(c)[k].message)]

\* Three calls, the first before setController: getLogs() has the three
\* entries and the controller got the last two, a warn and then an error.
C26_Witness ==
    /\ Len(logs) = 3
    /\ calls[1].controller = Absent
    /\ calls[2].controller = Some("c1")
    /\ Len(enqueued["c1"]) = 2
    /\ logs[2].level = "warn"
    /\ logs[3].level = "error"
    /\ ParseChunk(enqueued["c1"][1]).level = "warn"
    /\ ParseChunk(enqueued["c1"][2]).level = "error"

\* --------------------------------------------- properties of the stream
\* The client's test on a parsed line: parsed.type === "judgments".
IsJudgments(chunk) == chunk[2] = "type" /\ chunk[3] = "judgments"

\* The lines of the stream the client takes as log lines.
LogChunks(queue) == SelectSeq(queue, LAMBDA chunk : ~IsJudgments(chunk))

\* C30: on the stream of one POST, the log entries of the run are enqueued
\* in the order they were logged and all of them before the judgments
\* message; the judgments message is enqueued at most once, and only after
\* runJob resolved with a judgments list that is not null, of which it
\* carries the lists; the controller is closed exactly once, when runJob
\* has resolved or rejected and not before, and nothing is enqueued after
\* the close.
C30_StreamOrder ==
    \A c \in Controllers :
      LET queue == enqueued[c] IN
      /\ [k \in 1..Len(LogChunks(queue)) |-> ParseChunk(LogChunks(queue)[k])] = logs
      /\ \A k \in 1..Len(queue) :
            IsJudgments(queue[k]) =>
              /\ k = Len(queue)
              /\ settled = Some("resolved")
              /\ pc = "done"
              /\ Get(result).judgments # Absent
              /\ queue[k] = JudgmentMessage(Get(result))
      /\ Len(closes[c]) <= 1
      /\ settled = Absent => closes[c] = <<>>
      /\ settled # Absent =>
            /\ pc \in {"done", "rejected"}
            /\ closes[c] = <<Len(queue)>>

\* A closed stream of a run that resolved with one judgment: an info line,
\* a done line, then the judgments message, and the close after the three.
C30_Witness ==
    /\ routePc = "closed"
    /\ settled = Some("resolved")
    /\ Len(enqueued["c1"]) = 3
    /\ ParseChunk(enqueued["c1"][1]).level = "info"
    /\ ParseChunk(enqueued["c1"][2]).level = "done"
    /\ IsJudgments(enqueued["c1"][3])
    /\ Len(Get(Get(result).judgments)) = 1
    /\ closes["c1"] = <<3>>
====
